---- MODULE Spec2Model ----
(***************************************************************************)
(* A model of govital's dependency scanner (pkg/scanner/scanner.go).       *)
(*                                                                         *)
(* The Scanner owns a policy (stale threshold, include-indirect, worker    *)
(* count), a result aggregate and a mutex.  Scan checks for go.mod, asks   *)
(* `go mod graph` and `go list -json -m all`, filters the listing and      *)
(* hands the eligible dependencies to scanParallel: a pool of goroutines   *)
(* fed through a buffered channel, each of which runs                      *)
(* checkMaintenanceStatus on a dependency and appends it to the shared     *)
(* aggregate under the mutex.                                              *)
(*                                                                         *)
(* Everything outside the process (the file system, the go tool, git, the  *)
(* clock) is an input: the actions draw the tools' results from the sets   *)
(* they are given.  Times are whole hours.  Strings that the code takes    *)
(* apart (versions) are sequences of one-character strings.                *)
(***************************************************************************)
EXTENDS Integers, Sequences, FiniteSets, TLC

(***************************************************************************)
(* Bounds of the model.                                                    *)
(***************************************************************************)
\* longest `go list` output, in records, of the concurrency specification
MaxList == 2
\* most records the aggregate is let grow to, over all scans: a Scan call is
\* followed only if the dependencies it would dispatch fit
MaxRecords == 2
\* longest `go list` output of the resolver specification
MaxListR == 1
\* largest worker count a scan is started with
MaxWorkers == 2
\* number of Scan calls in one behaviour
MaxScans == 2
\* retries of the stuck JSON decoder that are followed
MaxRetries == 2
\* largest small threshold and age, in days, that isStale is asked about
MaxThreshold == 3
\* hours that the wall clock advances in one behaviour
MaxClock == 1

(***************************************************************************)
(* Program constants.                                                      *)
(***************************************************************************)
DefaultStaleThresholdDays == 30
DefaultWorkers == 4
MinWorkers == 1
HashLen == 12
HoursPerDay == 24

(***************************************************************************)
(* Data: time.Time, Dependency, ScanResult.                                *)
(***************************************************************************)
\* time.Time{}: the zero value, for which IsZero() is true
ZeroTime == [zero |-> TRUE, h |-> 0]

\* a time.Time that is h hours after the model's epoch
TimeAt(h) == [zero |-> FALSE, h |-> h]

\* int(float): Go's conversion truncates toward zero
IntOfQuotient(a, b) == IF a >= 0 THEN a \div b ELSE -((-a) \div b)

\* int(time.Since(t).Hours() / 24), evaluated when the clock shows now
DaysSince(t, now) == IntOfQuotient(now - t.h, HoursPerDay)

\* the Dependency literal built by Scan for a listed module
NewDependency(path, version) ==
    [Path |-> path, Version |-> version, Update |-> "", Latest |-> "",
     Error |-> "", LastCommitTime |-> ZeroTime, IsActive |-> TRUE,
     DaysSinceLastCommit |-> 0]

\* the ScanResult built by NewScanner
NewScanResult(projectPath) ==
    [ProjectPath |-> projectPath,
     Dependencies |-> <<>>,
     Summary |-> [Total |-> 0, Updated |-> 0, Outdated |-> 0, Errors |-> 0,
                  Inactive |-> 0,
                  StaleThresholdDays |-> DefaultStaleThresholdDays]]

(***************************************************************************)
(* The project and the outside world, as the inputs of the model.          *)
(***************************************************************************)
ProjectPath == "."
RootModule == "root"
Paths == {"dep/a", "dep/b"}

\* "v1": a tagged version, no hyphen
VTagged == <<"v", "1">>
\* "v0-24abcdef123456": a pseudo-version, 14 characters after the hyphen
VPseudo == <<"v", "0", "-", "2", "4", "a", "b", "c", "d", "e", "f", "1", "2",
             "3", "4", "5", "6">>
\* "v0-abc": fewer than HashLen characters after the hyphen
VShort == <<"v", "0", "-", "a", "b", "c">>

\* "v1-abcdef123456": exactly HashLen characters after the hyphen
VExact == <<"v", "1", "-", "a", "b", "c", "d", "e", "f", "1", "2", "3", "4",
            "5", "6">>
\* "v1-bcdef123456": one character fewer
VEleven == <<"v", "1", "-", "b", "c", "d", "e", "f", "1", "2", "3", "4", "5",
             "6">>
\* "v1-rc-24abcdef123456": two hyphens
VTwoHyphens == <<"v", "1", "-", "r", "c", "-", "2", "4", "a", "b", "c", "d",
                 "e", "f", "1", "2", "3", "4", "5", "6">>
\* "v1-abcdef123456-rc": a short text after the final hyphen, a long one
\* before it
VLateHyphen == <<"v", "1", "-", "a", "b", "c", "d", "e", "f", "1", "2", "3",
                 "4", "5", "6", "-", "r", "c">>
\* "0-24abcdef123456": no leading 'v'
VNoMarker == Tail(VPseudo)

\* the version strings that extractCommitHash is asked about
Versions == {<<>>, <<"v">>, <<"v", "1", "-">>, VTagged, VPseudo, VShort,
             VExact, VEleven, VTwoHyphens, VLateHyphen, VNoMarker}

\* One record of the `go list -json -m all` output.  kind "ok" is a record
\* that decodes; "typeError" is well-formed JSON that does not fit the struct
\* (Decode consumes it and returns an error); "syntaxError" is text that is
\* not JSON (Decode returns the error and the decoder keeps it).
ListRecord(kind, path, version, main) ==
    [kind |-> kind, Path |-> path, Version |-> version, Main |-> main]

MainRecord == ListRecord("ok", RootModule, <<>>, TRUE)
TypeErrorRecord == ListRecord("typeError", "", <<>>, FALSE)
SyntaxErrorRecord == ListRecord("syntaxError", "", <<>>, FALSE)
ModuleRecords ==
    {ListRecord("ok", "dep/a", VTagged, FALSE),
     ListRecord("ok", "dep/b", VPseudo, FALSE)}
ListRecords == ModuleRecords \cup {MainRecord, TypeErrorRecord, SyntaxErrorRecord}

\* all sequences over S of length at most n
SeqsUpTo(S, n) == UNION {[1..k -> S] : k \in 0..n}

\* the result of running `go list -json -m all`: exit status and output
ListOutputs(n) ==
    {[ok |-> FALSE, records |-> <<>>]}
    \cup {[ok |-> TRUE, records |-> r] : r \in SeqsUpTo(ListRecords, n)}

\* One line of `go mod graph`, as its fields: <<consumer, dependency>>, each
\* field a pair <<path, version>> read "path@version" (version <<>>: no '@').
GraphLines ==
    {<< <<RootModule, <<>>>>, <<"dep/a", VTagged>> >>,
     << <<RootModule, <<>>>>, <<"dep/b", VPseudo>> >>,
     << <<"dep/a", VTagged>>, <<"dep/b", VPseudo>> >>}

\* the result of running `go mod graph`: exit status and output lines
GraphOutputs ==
    {[ok |-> FALSE, lines |-> {}]}
    \cup {[ok |-> TRUE, lines |-> L] : L \in SUBSET GraphLines}

\* What the tools do when one dependency is resolved: the results of
\* `go list -json path@version`, `go mod download -json`, os.MkdirTemp,
\* `git clone`, `git show`, and the age in hours of the commit time that git
\* show prints.
ToolRun(info, download, mkdir, clone, show, age) ==
    [info |-> info, download |-> download, mkdir |-> mkdir, clone |-> clone,
     show |-> show, age |-> age]

AllToolsOK(age) == ToolRun("ok", "ok", "ok", "ok", "ok", age)

\* the runs in which exactly one tool fails (the code stops at the first)
FailingRuns ==
    {[AllToolsOK(0) EXCEPT !.info = "fail"],
     [AllToolsOK(0) EXCEPT !.info = "garbage"],
     [AllToolsOK(0) EXCEPT !.download = "fail"],
     [AllToolsOK(0) EXCEPT !.download = "garbage"],
     [AllToolsOK(0) EXCEPT !.mkdir = "fail"],
     [AllToolsOK(0) EXCEPT !.clone = "fail"],
     [AllToolsOK(0) EXCEPT !.show = "fail"],
     [AllToolsOK(0) EXCEPT !.show = "garbage"]}

\* ages, in hours, of discovered commits: in the future, 10 days, one hour
\* short of 31 days, 31 days, 400 days
Ages == {0 - 30, 10 * HoursPerDay, 31 * HoursPerDay - 1, 31 * HoursPerDay,
         400 * HoursPerDay}

\* thresholds handed to SetStaleThreshold
Thresholds == {0 - 1, DefaultStaleThresholdDays, 365}

\* the inputs of the concurrency specification
RunsC == {[AllToolsOK(0) EXCEPT !.info = "fail"], AllToolsOK(40 * HoursPerDay)}
ThresholdsC == {DefaultStaleThresholdDays, 365}

\* the inputs of the filter specification
RunsF == {AllToolsOK(40 * HoursPerDay)}
ThresholdsF == {DefaultStaleThresholdDays}

\* the inputs of the specification of repeated scans: commits one hour short
\* of 31 days and 31 days old; the two thresholds around them
RunsT == {AllToolsOK(31 * HoursPerDay - 1), AllToolsOK(31 * HoursPerDay)}
ThresholdsT == {DefaultStaleThresholdDays, DefaultStaleThresholdDays + 1}
\* ... and the listings of dependencies only, and the failed listing
ListsT ==
    {[ok |-> FALSE, records |-> <<>>]}
    \cup {[ok |-> TRUE, records |-> r] : r \in SeqsUpTo(ModuleRecords, MaxList)}

\* the inputs of the resolver specification
RunsR == FailingRuns \cup {AllToolsOK(a) : a \in Ages}
ThresholdsR == Thresholds

(***************************************************************************)
(* The state.                                                              *)
(***************************************************************************)
VARIABLES
    \* Scanner fields
    staleThresholdDays, includeIndirectDependencies, workers, resultMutex,
    result,
    \* the running Scan call: the coordinator's position and locals
    pc, depsToScan, spawned, sent, depChan, closed, wg,
    \* the worker goroutines: position and the index of *dep in depsToScan
    wpc, wdep,
    \* the value the last Scan call returned ("none": no call has returned)
    scanErr,
    \* the wall clock, in hours
    clock,
    \* a call of a pure function: the function with its arguments, the result
    call, ret,
    \* history: the tools the current or last Scan call has run, in order, with
    \* their success; the length of the aggregate when that call was made; per
    \* dependency of depsToScan the branches its resolutions took, in order;
    \* per record of the aggregate the branch that produced it; the number of
    \* Scan calls made; the outputs of `go mod graph` and `go list` that the
    \* current or last Scan call read, kept where a specification observes them
    calls, base, observed, provenance, scans, toolOut,
    \* history, kept where a specification observes it: the threshold of the
    \* Scanner when the current or last Scan call was made; per lookup of
    \* getCommitTime, in order, what became of its temporary directory; of the
    \* Scanner that the caller had before the current one, the results with
    \* their provenance and the dependencies, threshold and return value of
    \* its last Scan
    policy, tempDirs, earlier

vars == <<staleThresholdDays, includeIndirectDependencies, workers,
          resultMutex, result, pc, depsToScan, spawned, sent, depChan, closed,
          wg, wpc, wdep, scanErr, clock, call, ret, calls, base, observed,
          provenance, scans, toolOut, policy, tempDirs, earlier>>

scannerVars == <<staleThresholdDays, includeIndirectDependencies, workers>>
poolVars == <<spawned, sent, depChan, closed, wg, wpc, wdep>>
envVars == <<clock, call, ret>>
historyVars == <<policy, tempDirs, earlier>>

Workers == 1..MaxWorkers

(***************************************************************************)
(* Pure functions of the scanner.                                          *)
(***************************************************************************)
\* isStale with the comparison turned round
isStaleBelow(daysSinceCommit) == daysSinceCommit < staleThresholdDays

\* isStale with the comparison of a non-strict threshold
isStaleNonStrict(daysSinceCommit) == daysSinceCommit >= staleThresholdDays

\* isStale returns true if a dependency is stale
isStale(daysSinceCommit) == daysSinceCommit > staleThresholdDays

\* the index of the last '-' of parts at or below i, 0 if there is none:
\* the loop `for i := len(parts) - 1; i >= 0; i--`
RECURSIVE LastHyphen(_, _)
LastHyphen(parts, i) ==
    IF i = 0 THEN 0
    ELSE IF parts[i] = "-" THEN i
    ELSE LastHyphen(parts, i - 1)

\* extractCommitHash that wants more than HashLen characters
extractCommitHashStrict(version) ==
    IF Len(version) = 0 \/ version[1] # "v" THEN <<>>
    ELSE LET parts == Tail(version)
             i == LastHyphen(parts, Len(parts))
             suffix == SubSeq(parts, i + 1, Len(parts))
         IN IF i # 0 /\ Len(suffix) > HashLen
            THEN SubSeq(suffix, Len(suffix) - HashLen + 1, Len(suffix))
            ELSE <<>>

\* extractCommitHash: the commit hash of a pseudo-version, <<>> if none
extractCommitHash(version) ==
    IF Len(version) = 0 \/ version[1] # "v" THEN <<>>
    ELSE LET parts == Tail(version)
             i == LastHyphen(parts, Len(parts))
             suffix == SubSeq(parts, i + 1, Len(parts))
         IN IF i # 0 /\ Len(suffix) >= HashLen
            THEN SubSeq(suffix, Len(suffix) - HashLen + 1, Len(suffix))
            ELSE <<>>

\* getRepositoryInfo: repository URL and commit hash, or an error
getRepositoryInfo(modulePath, version, run) ==
    IF run.info = "fail" THEN
        [err |-> "failed to list module info", repoURL |-> <<>>, commitHash |-> <<>>]
    ELSE IF run.info = "garbage" THEN
        [err |-> "failed to unmarshal module info", repoURL |-> <<>>, commitHash |-> <<>>]
    ELSE IF run.download = "fail" THEN
        [err |-> "failed to download module info", repoURL |-> <<>>, commitHash |-> <<>>]
    ELSE IF run.download = "garbage" THEN
        [err |-> "failed to unmarshal download info", repoURL |-> <<>>, commitHash |-> <<>>]
    ELSE [err |-> "", repoURL |-> <<"https://", modulePath>>,
          commitHash |-> extractCommitHash(version)]

\* getCommitTimeViaHTTP: "return the current time as we can't determine it"
getCommitTimeViaHTTP(repoURL, commitHash, now) ==
    [time |-> TimeAt(now), err |-> ""]

\* getCommitTime: the commit time found in a clone of the repository
getCommitTime(repoURL, commitHash, run, now) ==
    IF commitHash = <<>> THEN [time |-> TimeAt(now), err |-> ""]
    ELSE IF run.mkdir = "fail" THEN [time |-> TimeAt(now), err |-> "mkdir"]
    ELSE IF run.clone = "fail" THEN getCommitTimeViaHTTP(repoURL, commitHash, now)
    ELSE IF run.show = "fail" THEN
        [time |-> TimeAt(now), err |-> "failed to get commit time"]
    ELSE IF run.show = "garbage" THEN
        [time |-> TimeAt(now), err |-> "failed to parse commit time"]
    ELSE [time |-> TimeAt(now - run.age), err |-> ""]

\* what os.RemoveAll can do to the temporary directory
Removals == {"ok", "fail"}

\* getCommitTime that removes its directory at the end of the function only
tempDirNoDefer(commitHash, run, removal) ==
    IF commitHash = <<>> THEN "none"
    ELSE IF run.mkdir = "fail" THEN "none"
    ELSE IF run.clone = "fail" \/ run.show # "ok" THEN "left"
    ELSE IF removal = "ok" THEN "removed" ELSE "left"

\* getCommitTime, its temporary directory when it returns: "none" if it made
\* none, else "removed" or "left" as the deferred os.RemoveAll ends
tempDir(commitHash, run, removal) ==
    IF commitHash = <<>> THEN "none"
    ELSE IF run.mkdir = "fail" THEN "none"
    ELSE IF removal = "ok" THEN "removed" ELSE "left"

\* checkMaintenanceStatus: *dep after the call (the call always returns nil)
checkMaintenanceStatus(dep, run, now) ==
    LET info == getRepositoryInfo(dep.Path, dep.Version, run)
        commit == getCommitTime(info.repoURL, info.commitHash, run, now)
        daysSinceCommit == DaysSince(commit.time, now)
    IN IF info.err # "" THEN [dep EXCEPT !.IsActive = TRUE]
       ELSE IF commit.err # "" THEN [dep EXCEPT !.IsActive = TRUE]
       ELSE [dep EXCEPT !.LastCommitTime = commit.time,
                        !.DaysSinceLastCommit = daysSinceCommit,
                        !.IsActive = IF isStale(daysSinceCommit) THEN FALSE ELSE @]

\* History only: the branch of the resolution that a run takes for a version.
\* "found" is the one branch in which a commit time was read from the
\* repository.
Provenance(version, run) ==
    IF run.info = "fail" THEN "infoFail"
    ELSE IF run.info = "garbage" THEN "infoDecode"
    ELSE IF run.download = "fail" THEN "downloadFail"
    ELSE IF run.download = "garbage" THEN "downloadDecode"
    ELSE IF extractCommitHash(version) = <<>> THEN "noRevision"
    ELSE IF run.mkdir = "fail" THEN "mkdirFail"
    ELSE IF run.clone = "fail" THEN "cloneFail"
    ELSE IF run.show = "fail" THEN "showFail"
    ELSE IF run.show = "garbage" THEN "parseFail"
    ELSE "found"

\* the path of a `go mod graph` field with the version from '@' on removed
StripVersion(field) == field[1]

\* getDirectDependencies: the set of direct dependency paths, or an error
getDirectDependencies(graph) ==
    IF ~graph.ok THEN [err |-> "failed to get module graph", deps |-> {}]
    ELSE [err |-> "",
          deps |-> {StripVersion(line[2]) : line \in {l \in graph.lines : Len(l) >= 2}}]

\* The decode loop of Scan over the records from position i on: the
\* dependencies to scan, the number of decode errors counted, and whether
\* the decoder is stuck on a syntax error (Decode keeps failing while More
\* keeps reporting input).
RECURSIVE Collect(_, _, _, _)
Collect(records, i, include, directDeps) ==
    IF i > Len(records) THEN [deps |-> <<>>, errors |-> 0, stuck |-> FALSE]
    ELSE LET rec == records[i]
             rest == Collect(records, i + 1, include, directDeps)
         IN IF rec.kind = "syntaxError" THEN
                [deps |-> <<>>, errors |-> 1, stuck |-> TRUE]
            ELSE IF rec.kind = "typeError" THEN
                [rest EXCEPT !.errors = @ + 1]
            ELSE IF rec.Main THEN rest
            ELSE IF ~include /\ rec.Path \notin directDeps THEN rest
            ELSE [rest EXCEPT !.deps = <<NewDependency(rec.Path,
            rec.Version)>> \o @]

(***************************************************************************)
(* Construction and the setters.                                           *)
(***************************************************************************)
\* NewScanner(ProjectPath); no Scan call has been made
Init ==
    /\ staleThresholdDays = DefaultStaleThresholdDays
    /\ includeIndirectDependencies = FALSE
    /\ workers = DefaultWorkers
    /\ resultMutex = 0
    /\ result = NewScanResult(ProjectPath)
    /\ pc = "idle"
    /\ depsToScan = <<>>
    /\ spawned = 0
    /\ sent = 0
    /\ depChan = <<>>
    /\ closed = FALSE
    /\ wg = 0
    /\ wpc = [w \in Workers |-> "none"]
    /\ wdep = [w \in Workers |-> 0]
    /\ scanErr = "none"
    /\ clock = 0
    /\ call = <<>>
    /\ ret = <<>>
    /\ calls = <<>>
    /\ base = 0
    /\ observed = <<>>
    /\ provenance = <<>>
    /\ scans = 0
    /\ toolOut = [graph |-> [ok |-> FALSE, lines |-> {}],
                  list |-> [ok |-> FALSE, records |-> <<>>]]
    /\ policy = DefaultStaleThresholdDays
    /\ tempDirs = <<>>
    /\ earlier = [result |-> NewScanResult(ProjectPath), provenance |-> <<>>,
                  dispatched |-> <<>>, policy |-> DefaultStaleThresholdDays,
                  scanErr |-> "none"]

\* SetWorkers that stores any count
\* NewScanner that hands the aggregate of the old Scanner to the new one
NewScannerKeepsResult ==
    /\ pc = "idle"
    /\ scans < MaxScans
    /\ earlier' = [result |-> result, provenance |-> provenance,
                   dispatched |-> depsToScan, policy |-> policy,
                   scanErr |-> scanErr]
    /\ staleThresholdDays' = DefaultStaleThresholdDays
    /\ includeIndirectDependencies' = FALSE
    /\ workers' = DefaultWorkers
    /\ resultMutex' = 0
    /\ result' = [result EXCEPT !.Summary.StaleThresholdDays =
                                    DefaultStaleThresholdDays]
    /\ depsToScan' = <<>>
    /\ spawned' = 0
    /\ sent' = 0
    /\ depChan' = <<>>
    /\ closed' = FALSE
    /\ wg' = 0
    /\ wpc' = [w \in Workers |-> "none"]
    /\ wdep' = [w \in Workers |-> 0]
    /\ scanErr' = "none"
    /\ calls' = <<>>
    /\ base' = Len(result.Dependencies)
    /\ observed' = <<>>
    /\ UNCHANGED <<pc, envVars, provenance, scans, toolOut, policy, tempDirs>>

\* The caller keeps the results of its Scanner and makes a new one with
\* NewScanner: the state of Init, with an aggregate of its own.
NewScanner ==
    /\ pc = "idle"
    /\ scans < MaxScans
    /\ earlier' = [result |-> result, provenance |-> provenance,
                   dispatched |-> depsToScan, policy |-> policy,
                   scanErr |-> scanErr]
    /\ staleThresholdDays' = DefaultStaleThresholdDays
    /\ includeIndirectDependencies' = FALSE
    /\ workers' = DefaultWorkers
    /\ resultMutex' = 0
    /\ result' = NewScanResult(ProjectPath)
    /\ depsToScan' = <<>>
    /\ spawned' = 0
    /\ sent' = 0
    /\ depChan' = <<>>
    /\ closed' = FALSE
    /\ wg' = 0
    /\ wpc' = [w \in Workers |-> "none"]
    /\ wdep' = [w \in Workers |-> 0]
    /\ scanErr' = "none"
    /\ calls' = <<>>
    /\ base' = 0
    /\ observed' = <<>>
    /\ provenance' = <<>>
    /\ UNCHANGED <<pc, envVars, scans, toolOut, policy, tempDirs>>

\* an hour passes between two calls of the caller
Tick ==
    /\ pc = "idle"
    /\ clock < MaxClock
    /\ clock' = clock + 1
    /\ UNCHANGED <<scannerVars, resultMutex, result, pc, depsToScan, poolVars,
                   scanErr, call, ret, calls, base, observed, provenance,
                   scans, toolOut, historyVars>>

SetWorkersUnclamped(count) ==
    /\ workers' = count
    /\ UNCHANGED <<staleThresholdDays, includeIndirectDependencies,
                   resultMutex, result, pc, depsToScan, poolVars, scanErr,
                   envVars, calls, base, observed, provenance, scans,
                   toolOut, historyVars>>

SetWorkers(count) ==
    /\ workers' = IF count < MinWorkers THEN MinWorkers ELSE count
    /\ UNCHANGED <<staleThresholdDays, includeIndirectDependencies,
                   resultMutex, result, pc, depsToScan, poolVars, scanErr,
                   envVars, calls, base, observed, provenance, scans,
                   toolOut, historyVars>>

\* SetStaleThreshold that leaves the summary of the result alone
SetStaleThresholdFieldOnly(days) ==
    /\ staleThresholdDays' = days
    /\ UNCHANGED <<includeIndirectDependencies, workers, resultMutex, result,
                   pc, depsToScan, poolVars, scanErr, envVars, calls, base,
                   observed, provenance, scans, toolOut, historyVars>>

SetStaleThreshold(days) ==
    /\ staleThresholdDays' = days
    /\ result' = [result EXCEPT !.Summary.StaleThresholdDays = days]
    /\ UNCHANGED <<includeIndirectDependencies, workers, resultMutex, pc,
                   depsToScan, poolVars, scanErr, envVars, calls, base, observed,
                   provenance, scans, toolOut, historyVars>>

SetIncludeIndirectDependencies(include) ==
    /\ includeIndirectDependencies' = include
    /\ UNCHANGED <<staleThresholdDays, workers, resultMutex, result, pc,
                   depsToScan, poolVars, scanErr, envVars, calls, base, observed,
                   provenance, scans, toolOut, historyVars>>

(***************************************************************************)
(* Scan, up to the call of scanParallel.  goMod: whether os.Stat finds     *)
(* go.mod; graph and list: what `go mod graph` and `go list` return.       *)
(***************************************************************************)
\* the fresh locals of a Scan call that does not reach scanParallel
NoPool ==
    /\ spawned' = 0
    /\ sent' = 0
    /\ depChan' = <<>>
    /\ closed' = FALSE
    /\ wg' = 0
    /\ wpc' = [w \in Workers |-> "none"]
    /\ wdep' = [w \in Workers |-> 0]

\* directDeps as the filter of Scan reads it: the set built from the graph, and
\* the empty map after a failure or when indirect dependencies are included
DirectDeps(graph) ==
    IF includeIndirectDependencies THEN {}
    ELSE getDirectDependencies(graph).deps

\* the dependencies Scan hands to scanParallel for these tool results
Eligible(graph, list) ==
    Collect(list.records, 1, includeIndirectDependencies, DirectDeps(graph)).deps

\* a tool that the call does not run has no result to choose
ToolsRun(goMod, graph, list) ==
    /\ ~goMod => ~list.ok
    /\ (~goMod \/ includeIndirectDependencies) => ~graph.ok

\* the tools a Scan call runs before it reads the listing, in order
ToolCalls(goMod, graph, list) ==
    IF ~goMod THEN <<[tool |-> "stat", ok |-> FALSE]>>
    ELSE <<[tool |-> "stat", ok |-> TRUE]>>
         \o (IF includeIndirectDependencies THEN <<>>
             ELSE <<[tool |-> "graph", ok |-> graph.ok]>>)
         \o <<[tool |-> "list", ok |-> list.ok]>>

\* GoModNotFound that also counts the failure in Summary.Errors
GoModNotFoundCounted ==
    /\ scanErr' = "go.mod not found"
    /\ depsToScan' = <<>>
    /\ observed' = <<>>
    /\ result' = [result EXCEPT !.Summary.Errors = @ + 1]
    /\ UNCHANGED pc

\* os.Stat fails: Scan returns "go.mod not found at ..."
GoModNotFound ==
    /\ scanErr' = "go.mod not found"
    /\ depsToScan' = <<>>
    /\ observed' = <<>>
    /\ UNCHANGED <<result, pc>>

\* ListFailed that also counts the failure in Summary.Errors
ListFailedCounted ==
    /\ scanErr' = "failed to list dependencies"
    /\ depsToScan' = <<>>
    /\ observed' = <<>>
    /\ result' = [result EXCEPT !.Summary.Errors = @ + 1]
    /\ UNCHANGED pc

\* ListFailed that logs the failure and returns nil
ListFailedIgnored ==
    /\ scanErr' = "nil"
    /\ depsToScan' = <<>>
    /\ observed' = <<>>
    /\ UNCHANGED <<result, pc>>

\* `go list` fails: Scan returns "failed to list dependencies: ..."
ListFailed ==
    /\ scanErr' = "failed to list dependencies"
    /\ depsToScan' = <<>>
    /\ observed' = <<>>
    /\ UNCHANGED <<result, pc>>

\* Dispatch that starts the scan on an empty aggregate
DispatchFresh(graph, list) ==
    LET got == Collect(list.records, 1, includeIndirectDependencies,
                       DirectDeps(graph))
    IN /\ scanErr' = "none"
       /\ depsToScan' = got.deps
       /\ observed' = [i \in 1..Len(got.deps) |-> <<>>]
       /\ result' = [result EXCEPT !.Dependencies = <<>>,
                                   !.Summary.Total = 0,
                                   !.Summary.Inactive = 0,
                                   !.Summary.Errors = @ + got.errors]
       /\ pc' = IF got.stuck THEN "decode" ELSE "spawn"

\* Dispatch that does not filter by the direct set
DispatchAll(graph, list) ==
    LET got == Collect(list.records, 1, TRUE, {})
    IN /\ scanErr' = "none"
       /\ depsToScan' = got.deps
       /\ observed' = [i \in 1..Len(got.deps) |-> <<>>]
       /\ result' = [result EXCEPT !.Summary.Errors = @ + got.errors]
       /\ pc' = IF got.stuck THEN "decode" ELSE "spawn"

\* the decode loop runs over the listing; then scanParallel is entered, or
\* the loop is stuck on a syntax error
Dispatch(graph, list) ==
    LET got == Collect(list.records, 1, includeIndirectDependencies,
                       DirectDeps(graph))
    IN /\ scanErr' = "none"
       /\ depsToScan' = got.deps
       /\ observed' = [i \in 1..Len(got.deps) |-> <<>>]
       /\ result' = [result EXCEPT !.Summary.Errors = @ + got.errors]
       /\ pc' = IF got.stuck THEN "decode" ELSE "spawn"

Scan(goMod, graph, list) ==
    /\ pc = "idle"
    /\ scans < MaxScans
    /\ workers <= MaxWorkers
    /\ ToolsRun(goMod, graph, list)
    /\ Len(result.Dependencies) + Len(Eligible(graph, list)) <= MaxRecords
    /\ scans' = scans + 1
    /\ calls' = ToolCalls(goMod, graph, list)
    /\ base' = Len(result.Dependencies)
    /\ NoPool
    /\ UNCHANGED <<scannerVars, resultMutex, envVars, provenance, tempDirs,
                   earlier>>
    /\ IF ~goMod THEN GoModNotFound
       ELSE IF ~list.ok THEN ListFailed
       ELSE Dispatch(graph, list)

\* History: a Scan call whose tool outputs are kept for the properties.
ScanObserved(goMod, graph, list) ==
    /\ Scan(goMod, graph, list)
    /\ toolOut' = [graph |-> graph, list |-> list]
    /\ UNCHANGED policy

\* the decode loop on a syntax error: Decode returns the kept error again
DecodeRetry ==
    /\ pc = "decode"
    /\ result.Summary.Errors < MaxRetries
    /\ result' = [result EXCEPT !.Summary.Errors = @ + 1]
    /\ UNCHANGED <<scannerVars, resultMutex, pc, depsToScan, poolVars,
                   scanErr, envVars, calls, base, observed, provenance, scans,
                   toolOut, historyVars>>

(***************************************************************************)
(* scanParallel: the coordinator.                                          *)
(***************************************************************************)
\* StartWorker that starts no more workers than there are dependencies
StartWorkerAsNeeded ==
    /\ pc = "spawn"
    /\ spawned < workers
    /\ spawned' = spawned + 1
    /\ wg' = wg + 1
    /\ wpc' = [wpc EXCEPT ![spawned + 1] = "recv"]
    /\ pc' = IF spawned + 1 < workers /\ spawned + 1 < Len(depsToScan)
             THEN "spawn" ELSE "send"
    /\ UNCHANGED <<scannerVars, resultMutex, result, depsToScan, sent,
                   depChan, closed, wdep, scanErr, envVars, calls, base,
                   observed, provenance, scans, toolOut, historyVars>>

\* one iteration of the loop that starts the worker goroutines
StartWorker ==
    /\ pc = "spawn"
    /\ spawned < workers
    /\ spawned' = spawned + 1
    /\ wg' = wg + 1
    /\ wpc' = [wpc EXCEPT ![spawned + 1] = "recv"]
    /\ pc' = IF spawned + 1 < workers THEN "spawn" ELSE "send"
    /\ UNCHANGED <<scannerVars, resultMutex, result, depsToScan, sent,
                   depChan, closed, wdep, scanErr, envVars, calls, base, observed,
                   provenance, scans, toolOut, historyVars>>

\* Send into a channel that hands out the newest element first
SendFront ==
    /\ pc = "send"
    /\ sent < Len(depsToScan)
    /\ Len(depChan) < Len(depsToScan)
    /\ depChan' = <<sent + 1>> \o depChan
    /\ sent' = sent + 1
    /\ UNCHANGED <<scannerVars, resultMutex, result, pc, depsToScan, spawned,
                   closed, wg, wpc, wdep, scanErr, envVars, calls, base, observed,
                   provenance, scans, toolOut, historyVars>>

\* depChan <- &depsToScan[i]; the channel's capacity is len(depsToScan)
Send ==
    /\ pc = "send"
    /\ sent < Len(depsToScan)
    /\ Len(depChan) < Len(depsToScan)
    /\ depChan' = Append(depChan, sent + 1)
    /\ sent' = sent + 1
    /\ UNCHANGED <<scannerVars, resultMutex, result, pc, depsToScan, spawned,
                   closed, wg, wpc, wdep, scanErr, envVars, calls, base, observed,
                   provenance, scans, toolOut, historyVars>>

\* Close that goes on to wg.Wait() without closing the channel
CloseForgotten ==
    /\ pc = "send"
    /\ sent = Len(depsToScan)
    /\ pc' = "wait"
    /\ UNCHANGED <<scannerVars, resultMutex, result, depsToScan, spawned,
                   sent, depChan, closed, wg, wpc, wdep, scanErr, envVars,
                   calls, base, observed, provenance, scans, toolOut,
                   historyVars>>

\* Close that does not wait for the send loop to finish
CloseEarly ==
    /\ pc = "send"
    /\ closed' = TRUE
    /\ pc' = "wait"
    /\ UNCHANGED <<scannerVars, resultMutex, result, depsToScan, spawned,
                   sent, depChan, wg, wpc, wdep, scanErr, envVars, calls, base,
                   observed, provenance, scans, toolOut, historyVars>>

\* close(depChan)
Close ==
    /\ pc = "send"
    /\ sent = Len(depsToScan)
    /\ closed' = TRUE
    /\ pc' = "wait"
    /\ UNCHANGED <<scannerVars, resultMutex, result, depsToScan, spawned,
                   sent, depChan, wg, wpc, wdep, scanErr, envVars, calls, base,
                   observed, provenance, scans, toolOut, historyVars>>

\* ScanReturn without wg.Wait()
ScanReturnNoWait ==
    /\ pc = "wait"
    /\ result' = [result EXCEPT !.Summary.StaleThresholdDays = staleThresholdDays]
    /\ scanErr' = "nil"
    /\ pc' = "idle"
    /\ UNCHANGED <<scannerVars, resultMutex, depsToScan, poolVars, envVars,
                   calls, base, observed, provenance, scans, toolOut,
                   historyVars>>

\* wg.Wait() returns, scanParallel returns, and Scan finishes with nil
ScanReturn ==
    /\ pc = "wait"
    /\ wg = 0
    /\ result' = [result EXCEPT !.Summary.StaleThresholdDays = staleThresholdDays]
    /\ scanErr' = "nil"
    /\ pc' = "idle"
    /\ UNCHANGED <<scannerVars, resultMutex, depsToScan, poolVars, envVars,
                   calls, base, observed, provenance, scans, toolOut,
                   historyVars>>

(***************************************************************************)
(* scanParallel: one worker goroutine.                                     *)
(***************************************************************************)
\* WorkerReceive that waits while another worker resolves a dependency
WorkerReceiveSerial(w) ==
    /\ wpc[w] = "recv"
    /\ \A v \in Workers : wpc[v] # "check"
    /\ depChan # <<>>
    /\ wdep' = [wdep EXCEPT ![w] = Head(depChan)]
    /\ depChan' = Tail(depChan)
    /\ wpc' = [wpc EXCEPT ![w] = "check"]
    /\ UNCHANGED <<scannerVars, resultMutex, result, pc, depsToScan, spawned,
                   sent, closed, wg, scanErr, envVars, calls, base, observed,
                   provenance, scans, toolOut, historyVars>>

\* `for dep := range depChan` receives a pointer
WorkerReceive(w) ==
    /\ wpc[w] = "recv"
    /\ depChan # <<>>
    /\ wdep' = [wdep EXCEPT ![w] = Head(depChan)]
    /\ depChan' = Tail(depChan)
    /\ wpc' = [wpc EXCEPT ![w] = "check"]
    /\ UNCHANGED <<scannerVars, resultMutex, result, pc, depsToScan, spawned,
                   sent, closed, wg, scanErr, envVars, calls, base, observed,
                   provenance, scans, toolOut, historyVars>>

\* WorkerExit that leaves the loop on an empty channel, closed or not
WorkerExitEarly(w) ==
    /\ wpc[w] = "recv"
    /\ depChan = <<>>
    /\ wpc' = [wpc EXCEPT ![w] = "done"]
    /\ wdep' = [wdep EXCEPT ![w] = 0]
    /\ wg' = wg - 1
    /\ UNCHANGED <<scannerVars, resultMutex, result, pc, depsToScan, spawned,
                   sent, depChan, closed, scanErr, envVars, calls, base,
                   observed, provenance, scans, toolOut, historyVars>>

\* the range loop ends on the closed, drained channel; defer wg.Done()
WorkerExit(w) ==
    /\ wpc[w] = "recv"
    /\ depChan = <<>>
    /\ closed
    /\ wpc' = [wpc EXCEPT ![w] = "done"]
    /\ wdep' = [wdep EXCEPT ![w] = 0]
    /\ wg' = wg - 1
    /\ UNCHANGED <<scannerVars, resultMutex, result, pc, depsToScan, spawned,
                   sent, depChan, closed, scanErr, envVars, calls, base, observed,
                   provenance, scans, toolOut, historyVars>>

\* WorkerCheck that counts a resolution that found no commit as an error
WorkerCheckCountsError(w, run) ==
    /\ wpc[w] = "check"
    /\ depsToScan' = [depsToScan EXCEPT
                        ![wdep[w]] = checkMaintenanceStatus(@, run, clock)]
    /\ observed' = [observed EXCEPT
                      ![wdep[w]] = Append(@, Provenance(depsToScan[wdep[w]].Version, run))]
    /\ result' = IF Provenance(depsToScan[wdep[w]].Version, run) = "found"
                 THEN result
                 ELSE [result EXCEPT !.Summary.Errors = @ + 1]
    /\ wpc' = [wpc EXCEPT ![w] = "lock"]
    /\ UNCHANGED <<scannerVars, resultMutex, pc, spawned, sent,
                   depChan, closed, wg, wdep, scanErr, envVars, calls, base,
                   provenance, scans, toolOut, policy, earlier>>

\* WorkerCheck that drops a dependency whose resolution failed
WorkerCheckSkipFailed(w, run) ==
    /\ wpc[w] = "check"
    /\ depsToScan' = [depsToScan EXCEPT
                        ![wdep[w]] = checkMaintenanceStatus(@, run, clock)]
    /\ observed' = [observed EXCEPT
                      ![wdep[w]] = Append(@, Provenance(depsToScan[wdep[w]].Version, run))]
    /\ wpc' = [wpc EXCEPT
                 ![w] = IF Provenance(depsToScan[wdep[w]].Version, run)
                           \in {"noRevision", "cloneFail", "found"}
                        THEN "lock" ELSE "recv"]
    /\ UNCHANGED <<scannerVars, resultMutex, result, pc, spawned, sent,
                   depChan, closed, wg, wdep, scanErr, envVars, calls, base,
                   provenance, scans, toolOut, policy, earlier>>

\* the temporary directory of a resolution: getCommitTime is called only
\* after getRepositoryInfo has returned without an error
LookupDir(dep, run, removal) ==
    LET info == getRepositoryInfo(dep.Path, dep.Version, run)
    IN [branch |-> Provenance(dep.Version, run),
        removal |-> removal,
        dir |-> IF info.err # "" THEN "none"
                ELSE tempDir(info.commitHash, run, removal)]

\* s.checkMaintenanceStatus(dep), with the tools behaving as in run
WorkerCheck(w, run) ==
    /\ wpc[w] = "check"
    /\ depsToScan' = [depsToScan EXCEPT
                        ![wdep[w]] = checkMaintenanceStatus(@, run, clock)]
    /\ observed' = [observed EXCEPT
                      ![wdep[w]] = Append(@, Provenance(depsToScan[wdep[w]].Version, run))]
    /\ wpc' = [wpc EXCEPT ![w] = "lock"]
    /\ UNCHANGED <<scannerVars, resultMutex, result, pc, spawned, sent,
                   depChan, closed, wg, wdep, scanErr, envVars, calls, base,
                   provenance, scans, toolOut, policy, earlier>>

\* History: a resolution whose temporary directory is followed; removal is
\* what os.RemoveAll does if it is called.
WorkerCheckTemp(w, run, removal) ==
    /\ WorkerCheck(w, run)
    /\ tempDirs' = Append(tempDirs,
                          LookupDir(depsToScan[wdep[w]], run, removal))

\* WorkerLock that does not wait for the mutex
WorkerLockNoWait(w) ==
    /\ wpc[w] = "lock"
    /\ resultMutex' = w
    /\ wpc' = [wpc EXCEPT ![w] = "append"]
    /\ UNCHANGED <<scannerVars, result, pc, depsToScan, spawned, sent,
                   depChan, closed, wg, wdep, scanErr, envVars, calls, base,
                   observed, provenance, scans, toolOut, historyVars>>

\* s.resultMutex.Lock()
WorkerLock(w) ==
    /\ wpc[w] = "lock"
    /\ resultMutex = 0
    /\ resultMutex' = w
    /\ wpc' = [wpc EXCEPT ![w] = "append"]
    /\ UNCHANGED <<scannerVars, result, pc, depsToScan, spawned, sent,
                   depChan, closed, wg, wdep, scanErr, envVars, calls, base, observed,
                   provenance, scans, toolOut, historyVars>>

\* s.result.Dependencies = append(s.result.Dependencies, *dep)
\* WorkerAppend that puts the record in front of the others
WorkerPrepend(w) ==
    /\ wpc[w] = "append"
    /\ result' = [result EXCEPT
                    !.Dependencies = <<depsToScan[wdep[w]]>> \o @]
    /\ provenance' = <<observed[wdep[w]][Len(observed[wdep[w]])]>>
                         \o provenance
    /\ wpc' = [wpc EXCEPT ![w] = "total"]
    /\ UNCHANGED <<scannerVars, resultMutex, pc, depsToScan, spawned, sent,
                   depChan, closed, wg, wdep, scanErr, envVars, calls, base,
                   observed, scans, toolOut, historyVars>>

WorkerAppend(w) ==
    /\ wpc[w] = "append"
    /\ result' = [result EXCEPT !.Dependencies = Append(@, depsToScan[wdep[w]])]
    /\ provenance' = Append(provenance, observed[wdep[w]][Len(observed[wdep[w]])])
    /\ wpc' = [wpc EXCEPT ![w] = "total"]
    /\ UNCHANGED <<scannerVars, resultMutex, pc, depsToScan, spawned, sent,
                   depChan, closed, wg, wdep, scanErr, envVars, calls, base, observed,
                   scans, toolOut, historyVars>>

\* s.result.Summary.Total++
WorkerTotal(w) ==
    /\ wpc[w] = "total"
    /\ result' = [result EXCEPT !.Summary.Total = @ + 1]
    /\ wpc' = [wpc EXCEPT ![w] = "inactive"]
    /\ UNCHANGED <<scannerVars, resultMutex, pc, depsToScan, spawned, sent,
                   depChan, closed, wg, wdep, scanErr, envVars, calls, base, observed,
                   provenance, scans, toolOut, historyVars>>

\* WorkerInactive that counts every dependency
WorkerInactiveAlways(w) ==
    /\ wpc[w] = "inactive"
    /\ result' = [result EXCEPT !.Summary.Inactive = @ + 1]
    /\ wpc' = [wpc EXCEPT ![w] = "unlock"]
    /\ UNCHANGED <<scannerVars, resultMutex, pc, depsToScan, spawned, sent,
                   depChan, closed, wg, wdep, scanErr, envVars, calls, base,
                   observed, provenance, scans, toolOut, historyVars>>

\* if !dep.IsActive { s.result.Summary.Inactive++ }
WorkerInactive(w) ==
    /\ wpc[w] = "inactive"
    /\ result' = IF ~depsToScan[wdep[w]].IsActive
                 THEN [result EXCEPT !.Summary.Inactive = @ + 1]
                 ELSE result
    /\ wpc' = [wpc EXCEPT ![w] = "unlock"]
    /\ UNCHANGED <<scannerVars, resultMutex, pc, depsToScan, spawned, sent,
                   depChan, closed, wg, wdep, scanErr, envVars, calls, base, observed,
                   provenance, scans, toolOut, historyVars>>

\* WorkerUnlock that goes back to the head of the loop with the mutex held
WorkerUnlockKept(w) ==
    /\ wpc[w] = "unlock"
    /\ wpc' = [wpc EXCEPT ![w] = "recv"]
    /\ UNCHANGED <<scannerVars, resultMutex, result, pc, depsToScan, spawned,
                   sent, depChan, closed, wg, wdep, scanErr, envVars, calls,
                   base, observed, provenance, scans, toolOut, historyVars>>

\* s.resultMutex.Unlock(), and back to the head of the range loop
WorkerUnlock(w) ==
    /\ wpc[w] = "unlock"
    /\ resultMutex' = 0
    /\ wpc' = [wpc EXCEPT ![w] = "recv"]
    /\ UNCHANGED <<scannerVars, result, pc, depsToScan, spawned, sent,
                   depChan, closed, wg, wdep, scanErr, envVars, calls, base, observed,
                   provenance, scans, toolOut, historyVars>>

(***************************************************************************)
(* GetResults returns the pointer s.result without taking the mutex; ret   *)
(* is the aggregate as the reader finds it behind that pointer.  The       *)
(* reader "caller" is the goroutine that calls Scan, which is inside Scan  *)
(* while a scan runs; "other" is any other goroutine that has the Scanner. *)
(***************************************************************************)
Readers == {"caller", "other"}

GetResults(reader) ==
    /\ reader = "caller" => pc = "idle"
    /\ call' = <<"GetResults", reader>>
    /\ ret' = result
    /\ UNCHANGED <<scannerVars, resultMutex, result, pc, depsToScan, poolVars,
                   scanErr, clock, calls, base, observed, provenance, scans,
                   toolOut, historyVars>>

\* the loop `for _, dep := range s.result.Dependencies` from position i on
RECURSIVE InactiveFrom(_, _)
InactiveFrom(deps, i) ==
    IF i > Len(deps) THEN <<>>
    ELSE (IF ~deps[i].IsActive THEN <<deps[i]>> ELSE <<>>)
         \o InactiveFrom(deps, i + 1)

\* GetInactiveDependencies that collects the active records
GetActiveDependencies ==
    LET Active(dep) == dep.IsActive
    IN SelectSeq(result.Dependencies, Active)

\* GetInactiveDependencies: a new slice of the records with IsActive false
GetInactiveDependencies == InactiveFrom(result.Dependencies, 1)

\* the goroutine that calls Scan asks for the inactive dependencies
CallGetInactiveDependencies ==
    /\ pc = "idle"
    /\ call' = <<"GetInactiveDependencies">>
    /\ ret' = GetInactiveDependencies
    /\ UNCHANGED <<scannerVars, resultMutex, result, pc, depsToScan, poolVars,
                   scanErr, clock, calls, base, observed, provenance, scans,
                   toolOut, historyVars>>

(***************************************************************************)
(* The specifications.  The caller configures the Scanner between scans.   *)
(***************************************************************************)
Configure(thresholds) ==
    /\ pc = "idle"
    /\ scans < MaxScans
    /\ \/ \E count \in 0..MaxWorkers : SetWorkers(count)
       \/ \E days \in thresholds : SetStaleThreshold(days)
       \/ \E include \in BOOLEAN : SetIncludeIndirectDependencies(include)

\* History: a Scan call that keeps the threshold it was made under.
ScanSnapshot(goMod, graph, list) ==
    /\ Scan(goMod, graph, list)
    /\ policy' = staleThresholdDays
    /\ UNCHANGED toolOut

\* another goroutine calls SetStaleThreshold while a Scan call is running
SetStaleThresholdDuringScan(days) ==
    /\ pc # "idle"
    /\ SetStaleThreshold(days)

\* the steps of a Scan call after the listing has been read
Pool ==
    \/ DecodeRetry
    \/ StartWorker
    \/ Send
    \/ Close
    \/ ScanReturn

Coordinator(lists) ==
    \/ \E goMod \in BOOLEAN, graph \in GraphOutputs, list \in lists :
          Scan(goMod, graph, list) /\ UNCHANGED <<toolOut, policy>>
    \/ Pool

Worker(w, runs) ==
    \/ WorkerReceive(w)
    \/ WorkerExit(w)
    \/ \E run \in runs : WorkerCheck(w, run) /\ UNCHANGED tempDirs
    \/ WorkerLock(w)
    \/ WorkerAppend(w)
    \/ WorkerTotal(w)
    \/ WorkerInactive(w)
    \/ WorkerUnlock(w)

\* concurrency: listings of several records, a few tool runs
Next ==
    \/ Configure(ThresholdsC)
    \/ Coordinator(ListOutputs(MaxList))
    \/ \E w \in Workers : Worker(w, RunsC)

Spec == Init /\ [][Next]_vars

\* resolution: short listings, every tool run and every threshold
NextResolve ==
    \/ Configure(ThresholdsR)
    \/ Coordinator(ListOutputs(MaxListR))
    \/ \E w \in Workers : Worker(w, RunsR)

SpecResolve == Init /\ [][NextResolve]_vars

\* the filter: every listing and module graph, one tool run, one threshold
NextFilter ==
    \/ Configure(ThresholdsF)
    \/ \E goMod \in BOOLEAN, graph \in GraphOutputs,
          list \in ListOutputs(MaxList) : ScanObserved(goMod, graph, list)
    \/ Pool
    \/ \E w \in Workers : Worker(w, RunsF)

SpecFilter == Init /\ [][NextFilter]_vars

\* the inactive dependencies: the resolver's inputs, and the caller asks for
\* the inactive records between scans
NextInactive ==
    \/ NextResolve
    \/ CallGetInactiveDependencies

SpecInactive == Init /\ [][NextInactive]_vars

\* readers: the aggregate is read while scans run
NextRead ==
    \/ Configure(ThresholdsF)
    \/ Coordinator(ListOutputs(MaxList))
    \/ \E w \in Workers : Worker(w, RunsF)
    \/ \E reader \in Readers : GetResults(reader)

SpecRead == Init /\ [][NextRead]_vars

\* temporary directories: short listings, every tool run, os.RemoveAll
\* succeeding or failing
NextTemp ==
    \/ Configure(ThresholdsF)
    \/ Coordinator(ListOutputs(MaxListR))
    \/ \E w \in Workers :
          \/ WorkerReceive(w)
          \/ WorkerExit(w)
          \/ \E run \in RunsR, removal \in Removals :
                WorkerCheckTemp(w, run, removal)
          \/ WorkerLock(w)
          \/ WorkerAppend(w)
          \/ WorkerTotal(w)
          \/ WorkerInactive(w)
          \/ WorkerUnlock(w)

SpecTemp == Init /\ [][NextTemp]_vars

\* repeated scans: the caller scans, keeps the results, makes a new Scanner
\* and scans again, while time passes
NextTwice ==
    \/ pc = "idle" /\ scans < MaxScans /\ SetWorkers(MaxWorkers)
    \/ \E days \in ThresholdsT :
          pc = "idle" /\ scans < MaxScans /\ SetStaleThreshold(days)
    \/ scanErr = "nil" /\ NewScanner
    \/ Tick
    \/ \E goMod \in BOOLEAN, graph \in GraphOutputs, list \in ListsT :
          ScanSnapshot(goMod, graph, list)
    \/ StartWorker
    \/ Send
    \/ Close
    \/ ScanReturn
    \/ \E w \in Workers : Worker(w, RunsT)

SpecTwice == Init /\ [][NextTwice]_vars

\* Progress: the listings and the one tool run of the filter specification.
\* The Go scheduler lets every goroutine that can take a step take one in the
\* end, and every resolution returns.
NextLive ==
    \/ Configure(ThresholdsF)
    \/ Coordinator(ListOutputs(MaxList))
    \/ \E w \in Workers : Worker(w, RunsF)

Fairness ==
    /\ WF_vars(StartWorker)
    /\ WF_vars(Send)
    /\ WF_vars(Close)
    /\ WF_vars(ScanReturn)
    /\ \A w \in Workers : WF_vars(Worker(w, RunsF))

SpecLive == Init /\ [][NextLive]_vars /\ Fairness

\* A resolution that never returns: the tools hang on the module HungPath, so
\* the worker that holds such a dependency takes no further step.
HungPath == "dep/b"

Hung(w) == wpc[w] = "check" /\ depsToScan[wdep[w]].Path = HungPath

NextHang ==
    \/ Configure(ThresholdsF)
    \/ Coordinator(ListOutputs(MaxList))
    \/ \E w \in Workers : ~Hung(w) /\ Worker(w, RunsF)

FairnessHang ==
    /\ WF_vars(StartWorker)
    /\ WF_vars(Send)
    /\ WF_vars(Close)
    /\ WF_vars(ScanReturn)
    /\ \A w \in Workers : WF_vars(~Hung(w) /\ Worker(w, RunsF))

SpecHang == Init /\ [][NextHang]_vars /\ FairnessHang

\* the policy changed under a running scan
NextRace ==
    \/ Configure(ThresholdsC)
    \/ \E goMod \in BOOLEAN, graph \in GraphOutputs,
          list \in ListOutputs(MaxList) : ScanSnapshot(goMod, graph, list)
    \/ Pool
    \/ \E w \in Workers : Worker(w, RunsC)
    \/ \E days \in ThresholdsC : SetStaleThresholdDuringScan(days)

SpecRace == Init /\ [][NextRace]_vars

\* pure functions: the caller sets a threshold and asks isStale
CallIsStale(daysSinceCommit) ==
    /\ call' = <<"isStale", daysSinceCommit, staleThresholdDays>>
    /\ ret' = isStale(daysSinceCommit)
    /\ UNCHANGED <<scannerVars, resultMutex, result, pc, depsToScan, poolVars,
                   scanErr, clock, calls, base, observed, provenance, scans,
                   toolOut, historyVars>>

\* the caller asks getDirectDependencies, `go mod graph` behaving as in graph
CallGetDirectDependencies(graph) ==
    /\ call' = <<"getDirectDependencies", graph>>
    /\ ret' = getDirectDependencies(graph)
    /\ UNCHANGED <<scannerVars, resultMutex, result, pc, depsToScan, poolVars,
                   scanErr, clock, calls, base, observed, provenance, scans,
                   toolOut, historyVars>>

\* the Dependency values handed to checkMaintenanceStatus: the listed modules,
\* with IsActive as Scan sets it and as a caller may
EntryDependencies ==
    {[NewDependency(d.Path, d.Version) EXCEPT !.IsActive = active] :
        d \in ModuleRecords, active \in BOOLEAN}

\* the caller asks checkMaintenanceStatus, the tools behaving as in run
CallCheckMaintenanceStatus(dep, run) ==
    /\ call' = <<"checkMaintenanceStatus", dep, run, staleThresholdDays>>
    /\ ret' = checkMaintenanceStatus(dep, run, clock)
    /\ UNCHANGED <<scannerVars, resultMutex, result, pc, depsToScan, poolVars,
                   scanErr, clock, calls, base, observed, provenance, scans,
                   toolOut, historyVars>>

\* the resolution of one dependency, under the thresholds of the concurrency
\* specification
NextStatus ==
    \/ \E days \in ThresholdsC : SetStaleThreshold(days)
    \/ \E dep \in EntryDependencies, run \in RunsR :
          CallCheckMaintenanceStatus(dep, run)

SpecStatus == Init /\ [][NextStatus]_vars

\* The proxy endpoint list (GOPROXY), a string of characters.  The endpoints
\* are written with one letter each.
DirectWord == <<"d", "i", "r", "e", "c", "t">>
DefaultProxy == <<"p">>

\* the endpoint lists that getGoProxyURLs is asked about: "", "direct", "a",
\* "a,b", "b,a", "a/", "a , b", " a/ ,b/", "a,direct", "direct,a",
\* "a,direct,b", "direct,direct"
ProxyLists ==
    {<<>>, DirectWord, <<"a">>, <<"a", ",", "b">>, <<"b", ",", "a">>,
     <<"a", "/">>, <<"a", " ", ",", " ", "b">>,
     <<" ", "a", "/", " ", ",", "b", "/">>,
     <<"a", ",">> \o DirectWord, DirectWord \o <<",", "a">>,
     <<"a", ",">> \o DirectWord \o <<",", "b">>,
     DirectWord \o <<",">> \o DirectWord}

\* strings.Split(s, ","): the entries between the commas, in order
RECURSIVE SplitComma(_, _)
SplitComma(s, entry) ==
    IF s = <<>> THEN <<entry>>
    ELSE IF Head(s) = "," THEN <<entry>> \o SplitComma(Tail(s), <<>>)
    ELSE SplitComma(Tail(s), Append(entry, Head(s)))

\* strings.TrimSpace
RECURSIVE TrimSpace(_)
TrimSpace(s) ==
    IF s = <<>> THEN s
    ELSE IF Head(s) = " " THEN TrimSpace(Tail(s))
    ELSE IF s[Len(s)] = " " THEN TrimSpace(SubSeq(s, 1, Len(s) - 1))
    ELSE s

\* strings.TrimSuffix(s, "/")
TrimSlash(s) ==
    IF s # <<>> /\ s[Len(s)] = "/" THEN SubSeq(s, 1, Len(s) - 1) ELSE s

\* the endpoints of the entries from the i-th on, "direct" entries skipped
RECURSIVE Endpoints(_, _, _)
Endpoints(entries, i, skipDirect) ==
    IF i > Len(entries) THEN <<>>
    ELSE LET entry == TrimSpace(entries[i])
         IN (IF entry = <<>> \/ (skipDirect /\ entry = DirectWord) THEN <<>>
             ELSE <<TrimSlash(entry)>>)
            \o Endpoints(entries, i + 1, skipDirect)

\* getGoProxyURLs that takes "direct" for an endpoint
getGoProxyURLsKeepDirect(env) ==
    LET urls == Endpoints(SplitComma(env, <<>>), 1, FALSE)
    IN IF urls = <<>> THEN <<DefaultProxy>> ELSE urls

\* getGoProxyURLs: the proxy endpoints of the list, in order; the default
\* endpoint if the list names none
getGoProxyURLs(env) ==
    LET urls == Endpoints(SplitComma(env, <<>>), 1, TRUE)
    IN IF urls = <<>> THEN <<DefaultProxy>> ELSE urls

\* the caller asks getGoProxyURLs
CallGetGoProxyURLs(env) ==
    /\ call' = <<"getGoProxyURLs", env>>
    /\ ret' = getGoProxyURLs(env)
    /\ UNCHANGED <<scannerVars, resultMutex, result, pc, depsToScan, poolVars,
                   scanErr, clock, calls, base, observed, provenance, scans,
                   toolOut, historyVars>>

\* the caller asks extractCommitHash
CallExtractCommitHash(version) ==
    /\ call' = <<"extractCommitHash", version>>
    /\ ret' = extractCommitHash(version)
    /\ UNCHANGED <<scannerVars, resultMutex, result, pc, depsToScan, poolVars,
                   scanErr, clock, calls, base, observed, provenance, scans,
                   toolOut, historyVars>>

\* What the scan command is given: for each flag whether the command line
\* set it (Changed) and its value (the flag's default if not), and the values
\* of the configuration provider.
ScanFlags(thresholdSet, threshold, includeSet, include, workersSet, count) ==
    [thresholdChanged |-> thresholdSet, threshold |-> threshold,
     includeChanged |-> includeSet, include |-> include,
     workersChanged |-> workersSet, workers |-> count]

ProviderValues(threshold, include) ==
    [threshold |-> threshold, include |-> include]

\* The command lines of the scan command: a flag that was not set has its
\* default value.
ThresholdFlags ==
    {<<TRUE, t>> : t \in {7, DefaultStaleThresholdDays, 365}}
        \cup {<<FALSE, DefaultStaleThresholdDays>>}
IncludeFlags == {<<TRUE, TRUE>>, <<TRUE, FALSE>>, <<FALSE, FALSE>>}
WorkersFlags ==
    {<<TRUE, w>> : w \in {0, 2, DefaultWorkers}}
        \cup {<<FALSE, DefaultWorkers>>}
FlagSets ==
    {ScanFlags(t[1], t[2], i[1], i[2], w[1], w[2]) :
        t \in ThresholdFlags, i \in IncludeFlags, w \in WorkersFlags}

\* the values of the configuration provider
Providers ==
    {ProviderValues(t, i) :
        t \in {0, DefaultStaleThresholdDays, 365}, i \in BOOLEAN}

\* ScanCmdRunE that asks the configuration provider first
ScanCmdRunEProviderFirst(flags, cfg) ==
    LET days == cfg.threshold
        include == cfg.include
    IN /\ pc = "idle"
       /\ staleThresholdDays' = days
       /\ result' = [NewScanResult(ProjectPath)
                       EXCEPT !.Summary.StaleThresholdDays = days]
       /\ includeIndirectDependencies' = include
       /\ workers' = IF ~flags.workersChanged THEN DefaultWorkers
                     ELSE IF flags.workers < MinWorkers THEN MinWorkers
                     ELSE flags.workers
       /\ call' = <<"scanCmd", flags, cfg>>
       /\ ret' = <<>>
       /\ UNCHANGED <<resultMutex, pc, depsToScan, poolVars, scanErr, clock,
                      calls, base, observed, provenance, scans, toolOut,
                      historyVars>>

\* The scan command up to its call of Scan: NewScanner, then the setters with
\* the flags' values where the flags were set and the provider's otherwise.
ScanCmdRunE(flags, cfg) ==
    LET days == IF flags.thresholdChanged THEN flags.threshold
                ELSE cfg.threshold
        include == IF flags.includeChanged THEN flags.include
                   ELSE cfg.include
    IN /\ pc = "idle"
       /\ staleThresholdDays' = days
       /\ result' = [NewScanResult(ProjectPath)
                       EXCEPT !.Summary.StaleThresholdDays = days]
       /\ includeIndirectDependencies' = include
       /\ workers' = IF ~flags.workersChanged THEN DefaultWorkers
                     ELSE IF flags.workers < MinWorkers THEN MinWorkers
                     ELSE flags.workers
       /\ call' = <<"scanCmd", flags, cfg>>
       /\ ret' = <<>>
       /\ UNCHANGED <<resultMutex, pc, depsToScan, poolVars, scanErr, clock,
                      calls, base, observed, provenance, scans, toolOut,
                      historyVars>>

\* the scan command, run with every command line and configuration
NextCmd == \E flags \in FlagSets, cfg \in Providers : ScanCmdRunE(flags, cfg)

SpecCmd == Init /\ [][NextCmd]_vars

DayRange == ((0 - 2)..(MaxThreshold + 1)) \cup {30, 31, 365, 366}

\* the counts handed to SetWorkers: negative, zero, and up to the default
WorkerCounts == (0 - 2)..(MaxWorkers + 2)

NextPure ==
    \/ \E days \in DayRange : SetStaleThreshold(days)
    \/ \E days \in DayRange : CallIsStale(days)
    \/ \E count \in WorkerCounts : SetWorkers(count)
    \/ \E include \in BOOLEAN : SetIncludeIndirectDependencies(include)
    \/ \E graph \in GraphOutputs : CallGetDirectDependencies(graph)
    \/ \E version \in Versions : CallExtractCommitHash(version)
    \/ \E env \in ProxyLists : CallGetGoProxyURLs(env)

SpecPure == Init /\ [][NextPure]_vars

(***************************************************************************)
(* Properties.                                                             *)
(***************************************************************************)
Coordinate(dep) == <<dep.Path, dep.Version>>

\* how often the coordinate c occurs in the sequence of dependencies deps
Occurrences(deps, c) == Cardinality({i \in DOMAIN deps : Coordinate(deps[i]) = c})

\* the records the current or last Scan call has appended
ThisScan == SubSeq(result.Dependencies, base + 1, Len(result.Dependencies))

\* the number of inactive records among the first n of the aggregate
InactiveAmong(n) == Cardinality({i \in 1..n : ~result.Dependencies[i].IsActive})

\* the last Scan call has returned nil
ReturnedNil == pc = "idle" /\ scanErr = "nil"

InCriticalSection(w) == wpc[w] \in {"append", "total", "inactive", "unlock"}

ToolFailed(tool) == \E i \in DOMAIN calls : calls[i].tool = tool /\ ~calls[i].ok
ToolSucceeded(tool) == \E i \in DOMAIN calls : calls[i].tool = tool /\ calls[i].ok

\* C1: when Scan returns nil, every dispatched dependency has been resolved
\* exactly once and the records this call appended are, as a multiset of
\* (Path, Version), the dispatched dependencies; a fresh Scanner is the case
\* base = 0, where these records are the whole aggregate.
C1_OneRecordPerCoordinate ==
    ReturnedNil =>
        /\ \A i \in DOMAIN depsToScan : Len(observed[i]) = 1
        /\ Len(ThisScan) = Len(depsToScan)
        /\ \A i \in DOMAIN depsToScan :
              Occurrences(ThisScan, Coordinate(depsToScan[i]))
                  = Occurrences(depsToScan, Coordinate(depsToScan[i]))
        /\ base = 0 => ThisScan = result.Dependencies

\* two workers have scanned two different dependencies on a fresh Scanner and
\* appended them in the reverse of the listing's order
C1_Witness ==
    /\ ReturnedNil
    /\ base = 0
    /\ workers = 2
    /\ Len(depsToScan) = 2
    /\ Len(result.Dependencies) = 2
    /\ result.Dependencies[1].Path = depsToScan[2].Path
    /\ result.Dependencies[1].Path # result.Dependencies[2].Path

\* C2: whenever no worker is inside the append critical section, Total is the
\* number of records and Inactive the number of records with IsActive false.
C2_SummaryMatchesRecords ==
    (\A w \in Workers : ~InCriticalSection(w)) =>
        /\ result.Summary.Total = Len(result.Dependencies)
        /\ result.Summary.Inactive = InactiveAmong(Len(result.Dependencies))

\* a second Scan on the same Scanner has returned; an active and an inactive
\* record are in the aggregate
C2_Witness ==
    /\ ReturnedNil
    /\ scans = 2
    /\ base = 1
    /\ Len(result.Dependencies) = 2
    /\ result.Summary.Inactive = 1

\* C3: in every step, Scan is back at its caller only with all workers gone
\* and the queue drained, and a step that begins and ends with no Scan call
\* in progress changes neither the records nor the counters.
C3_ReturnAfterJoin ==
    [][/\ pc' = "idle" =>
            /\ \A w \in Workers : wpc'[w] \in {"none", "done"}
            /\ depChan' = <<>>
            /\ wg' = 0
       /\ (pc = "idle" /\ pc' = "idle") =>
            /\ result'.Dependencies = result.Dependencies
            /\ result'.Summary.Total = result.Summary.Total
            /\ result'.Summary.Inactive = result.Summary.Inactive
            /\ result'.Summary.Errors = result.Summary.Errors]_vars

\* Scan has returned from a pool of two workers that appended two records
C3_Witness ==
    /\ ReturnedNil
    /\ spawned = 2
    /\ \A w \in 1..2 : wpc[w] = "done"
    /\ Len(ThisScan) = 2

\* C4: a Scan call that found go.mod and whose listing tool succeeded returns
\* nil, with one record appended for every dispatched dependency, whatever
\* the resolutions did.
C4_ResolutionNeverFailsScan ==
    (pc = "idle" /\ ToolSucceeded("stat") /\ ToolSucceeded("list")) =>
        /\ scanErr = "nil"
        /\ Len(ThisScan) = Len(depsToScan)
        /\ \A i \in DOMAIN depsToScan :
              Occurrences(ThisScan, Coordinate(depsToScan[i])) >= 1

\* Scan has returned nil although the resolution of each of two dependencies
\* failed
C4_Witness ==
    /\ ReturnedNil
    /\ Len(depsToScan) = 2
    /\ \A i \in DOMAIN depsToScan : observed[i] = <<"infoFail">>
    /\ Len(ThisScan) = 2

\* C5: isStale(A) is true exactly when A > T, T the threshold at the call.
C5_IsStaleStrict ==
    (call # <<>> /\ call[1] = "isStale") => (ret = (call[2] > call[3]))

\* isStale was asked one day over the threshold and answered true
C5_Witness ==
    /\ call = <<"isStale", DefaultStaleThresholdDays + 1, DefaultStaleThresholdDays>>
    /\ ret = TRUE

\* C6: while a Scan call runs, each record it has appended for a dependency
\* whose commit time was found has IsActive = (A <= T), A the age of that
\* commit time in whole days and T the threshold; when all workers are done,
\* Summary.Inactive has grown by the number of this call's inactive records.
C6_FoundAgeDecides ==
    pc # "idle" =>
        /\ \A i \in (base + 1)..Len(result.Dependencies) :
              provenance[i] = "found" =>
                  (result.Dependencies[i].IsActive
                     = (DaysSince(result.Dependencies[i].LastCommitTime, clock)
                           <= staleThresholdDays))
        /\ (pc = "wait" /\ wg = 0) =>
              result.Summary.Inactive - InactiveAmong(base)
                  = Cardinality({i \in (base + 1)..Len(result.Dependencies) :
                                    ~result.Dependencies[i].IsActive})

\* threshold 365, a commit 400 days old: an inactive record, counted once
C6_Witness ==
    /\ pc = "wait"
    /\ wg = 0
    /\ staleThresholdDays = 365
    /\ Len(ThisScan) = 1
    /\ provenance[base + 1] = "found"
    /\ DaysSince(ThisScan[1].LastCommitTime, clock) = 400
    /\ ~ThisScan[1].IsActive
    /\ result.Summary.Inactive = 1

\* C7: a record of a dependency for which no commit time was found is active
\* (and so is not counted in Summary.Inactive), for every threshold.
C7_UnverifiedIsActive ==
    \A i \in DOMAIN result.Dependencies :
        provenance[i] # "found" => result.Dependencies[i].IsActive

\* C8: a record of a dependency for which no commit time was found has the
\* zero LastCommitTime, and a record verified active a non-zero one.
C8_UnverifiedHasZeroTime ==
    \A i \in DOMAIN result.Dependencies :
        /\ provenance[i] # "found" =>
              result.Dependencies[i].LastCommitTime = ZeroTime
        /\ provenance[i] = "found" =>
              result.Dependencies[i].LastCommitTime # ZeroTime

\* C9: a Scan call that does not find go.mod returns "go.mod not found" after
\* the one os.Stat call, with no tool run and no worker started, and leaves
\* the aggregate as it was.
C9_GoModNotFound ==
    [][(scans' = scans + 1 /\ ~calls'[1].ok) =>
           /\ scanErr' = "go.mod not found"
           /\ calls' = <<[tool |-> "stat", ok |-> FALSE]>>
           /\ pc' = "idle"
           /\ spawned' = 0
           /\ \A w \in Workers : wpc'[w] = "none"
           /\ result' = result]_vars

\* a Scan call failed on go.mod after an earlier one had filled the aggregate
C9_Witness ==
    /\ pc = "idle"
    /\ scanErr = "go.mod not found"
    /\ result.Summary.Total = 2
    /\ Len(result.Dependencies) = 2

\* C10 as stated: Scan returns an error if and only if go.mod is absent.
C10_OnlyGoModIsFatal ==
    (pc = "idle" /\ scans > 0) => ((scanErr # "nil") <=> ToolFailed("stat"))

\* C10 as amended: Scan returns an error if and only if go.mod is absent or
\* the listing tool fails; in particular not when `go mod graph` or the
\* tools of a resolution fail.
C10_GoModOrListingIsFatal ==
    (pc = "idle" /\ scans > 0) =>
        ((scanErr # "nil") <=> (ToolFailed("stat") \/ ToolFailed("list")))

\* the listing tool failed after a successful `go mod graph`, and Scan
\* returned the error
C10_Witness ==
    /\ pc = "idle"
    /\ ToolSucceeded("graph")
    /\ ToolFailed("list")
    /\ scanErr = "failed to list dependencies"

\* C11: a Scan call whose `go list` exits non-zero returns "failed to list
\* dependencies", starts no worker and leaves the aggregate (records and
\* counters) as it was.
C11_ListFailureChangesNothing ==
    [][(/\ scans' = scans + 1
        /\ calls'[Len(calls')].tool = "list"
        /\ ~calls'[Len(calls')].ok) =>
           /\ scanErr' = "failed to list dependencies"
           /\ pc' = "idle"
           /\ spawned' = 0
           /\ wg' = 0
           /\ \A w \in Workers : wpc'[w] = "none"
           /\ result' = result]_vars

\* the second Scan call failed on `go list` and the record and the counter of
\* the first are what the aggregate holds
C11_Witness ==
    /\ pc = "idle"
    /\ scans = 2
    /\ scanErr = "failed to list dependencies"
    /\ calls[Len(calls)] = [tool |-> "list", ok |-> FALSE]
    /\ \A w \in Workers : wpc[w] = "none"
    /\ Len(result.Dependencies) = 1
    /\ result.Summary.Total = 1

\* the records of a listing that decode and are not the root module, as the
\* coordinates <<Path, Version>>
ListedCoordinates(records) ==
    LET Listed(rec) == rec.kind = "ok" /\ ~rec.Main
        kept == SelectSeq(records, Listed)
    IN [i \in 1..Len(kept) |-> <<kept[i].Path, kept[i].Version>>]

\* the coordinates handed to scanParallel, in order
Dispatched == [i \in 1..Len(depsToScan) |-> Coordinate(depsToScan[i])]

\* a Scan call has read its listing to the end and is in scanParallel
InPool == pc \in {"spawn", "send", "wait"}

\* C12: a Scan call without indirect dependencies whose `go mod graph` failed
\* dispatches every coordinate of the listing that is not the root module.
C12_GraphFailureScansAll ==
    (InPool /\ ~includeIndirectDependencies /\ ToolFailed("graph")) =>
        Dispatched = ListedCoordinates(toolOut.list.records)

\* C13: the direct set that getDirectDependencies builds from the output of
\* `go mod graph` holds exactly the paths (version removed) of the
\* dependencies on the lines whose consumer is the root module.
C13_DirectSetIsRootsChildren ==
    (call # <<>> /\ call[1] = "getDirectDependencies" /\ call[2].ok) =>
        ret.deps = {line[2][1] : line \in {l \in call[2].lines :
                                              l[1][1] = RootModule}}

\* the records of a listing that decode, are not the root module and, without
\* indirect dependencies, have their path in the direct set, as coordinates
EligibleCoordinates(records, include, direct) ==
    LET Passes(rec) == /\ rec.kind = "ok"
                       /\ ~rec.Main
                       /\ include \/ rec.Path \in direct
        kept == SelectSeq(records, Passes)
    IN [i \in 1..Len(kept) |-> <<kept[i].Path, kept[i].Version>>]

\* C14: the coordinates handed to the workers are, in the listing's order,
\* the listed ones that are not the root module and that are in the direct
\* set or scanned with indirect dependencies included; they are among those
\* dispatched with includeIndirect = true, and no record is the root module's.
C14_DispatchedIffEligible ==
    /\ InPool =>
          /\ Dispatched = EligibleCoordinates(toolOut.list.records,
                              includeIndirectDependencies,
                              getDirectDependencies(toolOut.graph).deps)
          /\ \A i \in DOMAIN Dispatched :
                \E j \in DOMAIN ListedCoordinates(toolOut.list.records) :
                    Dispatched[i] = ListedCoordinates(toolOut.list.records)[j]
    /\ \A i \in DOMAIN result.Dependencies :
          result.Dependencies[i].Path # RootModule

\* without indirect dependencies, of the listed dep/a and dep/b only dep/a, the
\* one on a line of the module graph, was dispatched and has a record
C14_Witness ==
    /\ pc = "wait"
    /\ wg = 0
    /\ ~includeIndirectDependencies
    /\ toolOut.graph.ok
    /\ getDirectDependencies(toolOut.graph).deps = {"dep/a"}
    /\ ListedCoordinates(toolOut.list.records)
          = << <<"dep/a", VTagged>>, <<"dep/b", VPseudo>> >>
    /\ Len(ThisScan) = 1
    /\ ThisScan[1].Path = "dep/a"

\* the number of records of a listing that do not decode
Malformed(records) ==
    Cardinality({i \in DOMAIN records : records[i].kind # "ok"})

\* C15: in the first Scan call of a Scanner whose `go list` succeeded, each
\* malformed record of the listing has been counted once in Summary.Errors,
\* the decode loop has ended, and the eligible records among the well-formed
\* ones, those after a malformed record included, have been dispatched.
C15_MalformedRecordSkipped ==
    (scans = 1 /\ ToolSucceeded("stat") /\ ToolSucceeded("list")) =>
        /\ result.Summary.Errors = Malformed(toolOut.list.records)
        /\ pc # "decode"
        /\ InPool =>
              Dispatched = EligibleCoordinates(toolOut.list.records,
                              includeIndirectDependencies,
                              getDirectDependencies(toolOut.graph).deps)

\* a step is a GetResults call of the reader (a call that reads what the
\* last call read leaves the state as it is)
Reads(reader) ==
    /\ <<call, ret>> # <<call', ret'>>
    /\ call' = <<"GetResults", reader>>

\* the aggregate a holds some but not all of the records of the current scan
Partial(a) ==
    /\ base < Len(a.Dependencies)
    /\ Len(a.Dependencies) < base + Len(depsToScan)

\* C16 as stated: no reader of GetResults, at any moment of a running scan,
\* finds some but not all of that scan's records in the aggregate.
C16_NoPartialResultsVisible ==
    [][\A reader \in Readers :
          (Reads(reader) /\ pc # "idle") => ~Partial(ret')]_vars

\* C16 as amended: the goroutine that called Scan reads the aggregate only
\* when no scan runs, and after a Scan call that returned nil it finds all
\* records of that call, counted in Total.
C16_CallerSeesWholeScan ==
    [][Reads("caller") =>
          /\ pc = "idle"
          /\ ret' = result
          /\ ~Partial(ret')
          /\ scanErr = "nil" =>
                /\ Len(ret'.Dependencies) = base + Len(depsToScan)
                /\ ret'.Summary.Total = Len(ret'.Dependencies)]_vars

\* the caller has read two records after a scan by two workers returned
C16_Witness ==
    /\ call = <<"GetResults", "caller">>
    /\ ReturnedNil
    /\ spawned = 2
    /\ Len(depsToScan) = 2
    /\ ret = result
    /\ Len(ret.Dependencies) = 2

\* C17: at most one worker is between Lock and Unlock and that worker holds
\* the mutex; every step that changes the records, Total or Inactive is taken
\* by a worker that holds the mutex before and after the step.
C17_MutationsUnderMutex ==
    /\ [](\A w1 \in Workers, w2 \in Workers :
            (InCriticalSection(w1) /\ InCriticalSection(w2)) => w1 = w2)
    /\ [](\A w \in Workers : InCriticalSection(w) => resultMutex = w)
    /\ [][(\/ result'.Dependencies # result.Dependencies
           \/ result'.Summary.Total # result.Summary.Total
           \/ result'.Summary.Inactive # result.Summary.Inactive) =>
              \E w \in Workers :
                  /\ wpc[w] \in {"append", "total", "inactive"}
                  /\ wpc'[w] # wpc[w]
                  /\ resultMutex = w
                  /\ resultMutex' = w]_vars

\* worker 1 is inside the critical section, its record appended and not yet
\* counted, while worker 2 has resolved its dependency and waits for the mutex
C17_Witness ==
    /\ wpc[1] = "total"
    /\ wpc[2] = "lock"
    /\ resultMutex = 1
    /\ result.Summary.Total < Len(result.Dependencies)

\* a worker is resolving the dependency it holds
Resolving(w) == wpc[w] = "check"

\* C18: a worker that waits for a coordinate, resolves it or waits for the
\* mutex does not hold the mutex; the mutex is taken only by a worker whose
\* resolution of its coordinate has finished, and a worker that receives a
\* coordinate does not hold it.
C18_NoLockWhileResolving ==
    /\ [](\A w \in Workers :
            wpc[w] \in {"none", "recv", "check", "lock", "done"}
                => resultMutex # w)
    /\ [][\A w \in Workers :
            /\ (resultMutex' = w /\ resultMutex # w) =>
                  /\ wpc[w] = "lock"
                  /\ Len(observed[wdep[w]]) >= 1
            /\ (wpc[w] = "recv" /\ wpc'[w] = "check") =>
                  (resultMutex # w /\ resultMutex' # w)]_vars

\* two workers resolve two different dependencies at the same time
C18_Witness ==
    /\ Resolving(1)
    /\ Resolving(2)
    /\ wdep[1] # wdep[2]
    /\ resultMutex = 0

\* C19: while a Scan call starts its workers nothing has been enqueued; from
\* the first send on, exactly `workers` workers have been started, also for an
\* empty or short input; no more than `workers` resolutions are in flight.
C19_ExactlyWorkerCountWorkers ==
    pc # "idle" =>
        /\ Cardinality({w \in Workers : wpc[w] # "none"}) = spawned
        /\ pc = "spawn" => (spawned < workers /\ sent = 0 /\ depChan = <<>>)
        /\ pc \in {"send", "wait"} => spawned = workers
        /\ Cardinality({w \in Workers : Resolving(w)}) <= workers

\* two workers were started for an empty input, and both have left
C19_Witness ==
    /\ pc = "wait"
    /\ workers = 2
    /\ spawned = 2
    /\ depsToScan = <<>>
    /\ \A w \in 1..2 : wpc[w] = "done"

\* C20: a new Scanner has 4 workers; the worker count is at least 1 in every
\* state; a SetWorkers(n) step stores n if n >= 1 and 1 otherwise, and no
\* other setter changes the count.
C20_WorkersAtLeastOne ==
    /\ workers = 4
    /\ [](workers >= 1)
    /\ [][/\ \A n \in WorkerCounts :
                SetWorkers(n) => workers' = (IF n >= 1 THEN n ELSE 1)
          /\ (workers' # workers) =>
                \E n \in WorkerCounts : SetWorkers(n)]_vars

\* the count is 1, which only SetWorkers with a count of 1 or less leaves,
\* after the other setters have been called as well
C20_Witness ==
    /\ workers = 1
    /\ staleThresholdDays # DefaultStaleThresholdDays
    /\ includeIndirectDependencies

\* C21: a call of GetInactiveDependencies returns the records of the
\* aggregate with IsActive false, each once and in the aggregate's order,
\* leaves the aggregate as it is, and returns Summary.Inactive many records.
C21_InactiveSubsequence ==
    [][(/\ <<call, ret>> # <<call', ret'>>
        /\ call' = <<"GetInactiveDependencies">>) =>
           LET Inactive(dep) == ~dep.IsActive
           IN /\ ret' = SelectSeq(result.Dependencies, Inactive)
              /\ result' = result
              /\ Len(ret') = result.Summary.Inactive]_vars

\* of an active and an inactive record the call has returned the inactive one
C21_Witness ==
    /\ call = <<"GetInactiveDependencies">>
    /\ Len(result.Dependencies) = 2
    /\ result.Dependencies[1].IsActive
    /\ ~result.Dependencies[2].IsActive
    /\ ret = <<result.Dependencies[2]>>

\* the branches of a resolution in which a tool failed or its output did not
\* decode, so that checkMaintenanceStatus had an error in hand
ErrorBranches ==
    {"infoFail", "infoDecode", "downloadFail", "downloadDecode", "mkdirFail",
     "showFail", "parseFail"}

\* C24: the record of a dependency whose resolution met an error has a
\* non-empty Error field and no timestamp.
C24_ErrorRecordedOnRecord ==
    \A i \in DOMAIN result.Dependencies :
        provenance[i] \in ErrorBranches =>
            /\ result.Dependencies[i].Error # ""
            /\ result.Dependencies[i].LastCommitTime = ZeroTime

\* the positions of the hyphens of a version
Hyphens(v) == {i \in DOMAIN v : v[i] = "-"}

\* the text after the final hyphen of a version that has one
AfterFinalHyphen(v) ==
    LET h == CHOOSE i \in Hyphens(v) : \A j \in Hyphens(v) : j <= i
    IN SubSeq(v, h + 1, Len(v))

\* C25: extractCommitHash(v) is the last 12 characters of the text after the
\* final hyphen of v if v starts with 'v' and that text has at least 12
\* characters, and is empty otherwise.
C25_LastTwelveAfterFinalHyphen ==
    (call # <<>> /\ call[1] = "extractCommitHash") =>
        LET v == call[2]
        IN IF /\ v # <<>>
              /\ v[1] = "v"
              /\ Hyphens(v) # {}
              /\ Len(AfterFinalHyphen(v)) >= 12
           THEN /\ Len(ret) = 12
                /\ ret = SubSeq(v, Len(v) - 11, Len(v))
           ELSE ret = <<>>

\* asked about "v1-abcdef123456", extractCommitHash answered "abcdef123456"
C25_Witness ==
    /\ call = <<"extractCommitHash", VExact>>
    /\ ret = <<"a", "b", "c", "d", "e", "f", "1", "2", "3", "4", "5", "6">>

\* C28: the stale threshold of the Scanner is never negative.
C28_ThresholdNeverNegative == staleThresholdDays >= 0

C30_ExplicitFlagsWin ==
    (call # <<>> /\ call[1] = "scanCmd") =>
        LET flags == call[2]
            cfg == call[3]
        IN /\ flags.thresholdChanged => staleThresholdDays = flags.threshold
           /\ ~flags.thresholdChanged => staleThresholdDays = cfg.threshold
           /\ flags.includeChanged =>
                 includeIndirectDependencies = flags.include
           /\ ~flags.includeChanged =>
                 includeIndirectDependencies = cfg.include
           /\ result.Summary.StaleThresholdDays = staleThresholdDays
           /\ pc = "idle"
           /\ scans = 0

\* --stale-threshold 7 was given while the provider says 365, and the
\* include-indirect flag was not given while the provider says true
C30_Witness ==
    /\ call # <<>>
    /\ call[1] = "scanCmd"
    /\ call[2].thresholdChanged
    /\ call[2].threshold = 7
    /\ call[3].threshold = 365
    /\ ~call[2].includeChanged
    /\ ~call[2].include
    /\ call[3].include
    /\ staleThresholdDays = 7
    /\ includeIndirectDependencies

\* C27: every record that a scan appends with a commit time it found is
\* classified against the threshold that the Scanner had when Scan was
\* called, whatever SetStaleThreshold calls are made while the scan runs.
C27_ClassifiedAgainstSnapshot ==
    \A i \in (base + 1)..Len(result.Dependencies) :
        provenance[i] = "found" =>
            result.Dependencies[i].IsActive
                = ~(result.Dependencies[i].DaysSinceLastCommit > policy)

\* the branches of a resolution that are exit paths of getCommitTime after
\* os.MkdirTemp has made the directory
AfterMkdirTemp == {"cloneFail", "showFail", "parseFail", "found"}

Facts(deps, branches) ==
    {[c |-> Coordinate(deps[i]),
      branch |-> branches[i],
      time |-> IF branches[i] = "found" THEN deps[i].LastCommitTime
               ELSE ZeroTime] : i \in DOMAIN deps}

\* the age in whole days at which each found commit was classified
AgesOf(deps, branches) ==
    {[c |-> Coordinate(deps[i]), days |-> deps[i].DaysSinceLastCommit] :
        i \in {j \in DOMAIN deps : branches[j] = "found"}}

\* the coordinates of the records with the given IsActive
Class(deps, active) ==
    {Coordinate(deps[i]) : i \in {j \in DOMAIN deps : deps[j].IsActive = active}}

\* a Scanner has scanned and returned nil, the caller has kept its results,
\* and a new Scanner has scanned and returned nil
ScannedTwice == earlier.scanErr = "nil" /\ ReturnedNil

\* both scans had the same dependencies to resolve, and the tools told them
\* the same about each
SameProjectState ==
    LET old == Facts(earlier.result.Dependencies, earlier.provenance)
        new == Facts(result.Dependencies, provenance)
    IN /\ \A d \in ModuleRecords :
             Occurrences(earlier.dispatched, <<d.Path, d.Version>>)
                 = Occurrences(depsToScan, <<d.Path, d.Version>>)
       /\ \A f, g \in old \cup new : f.c = g.c => f = g

\* each found commit had the same age in whole days whenever it was classified
SameAges ==
    \A f, g \in AgesOf(earlier.result.Dependencies, earlier.provenance)
                   \cup AgesOf(result.Dependencies, provenance) :
        f.c = g.c => f = g

\* C22 as stated: two scans of the same project state under the same
\* threshold have the same Total and the same active and inactive
\* dependencies.
C22_SameTotalAndPartition ==
    (ScannedTwice /\ SameProjectState /\ earlier.policy = policy) =>
        /\ earlier.result.Summary.Total = result.Summary.Total
        /\ Class(earlier.result.Dependencies, TRUE)
              = Class(result.Dependencies, TRUE)
        /\ Class(earlier.result.Dependencies, FALSE)
              = Class(result.Dependencies, FALSE)

\* C22: two scans of the same project state under the same threshold, each by
\* a new Scanner and with every found commit as many whole days old at the
\* one as at the other, have the same Total, the same count of inactive
\* records and the same active and inactive dependencies, whatever the order
\* in which the workers appended.
C22_SameTotalAndPartitionSameDay ==
    (ScannedTwice /\ SameProjectState /\ SameAges /\ earlier.policy = policy) =>
        /\ earlier.result.Summary.Total = result.Summary.Total
        /\ earlier.result.Summary.Inactive = result.Summary.Inactive
        /\ Class(earlier.result.Dependencies, TRUE)
              = Class(result.Dependencies, TRUE)
        /\ Class(earlier.result.Dependencies, FALSE)
              = Class(result.Dependencies, FALSE)

\* two Scanners with two workers each have scanned dep/a and dep/b under the
\* threshold 30, an hour apart; the records came in different orders, and
\* dep/b, found 31 days old, is inactive in both
C22_Witness ==
    /\ ScannedTwice
    /\ SameProjectState
    /\ SameAges
    /\ earlier.policy = policy
    /\ clock = 1
    /\ Len(result.Dependencies) = 2
    /\ result.Dependencies[1].Path = "dep/a"
    /\ earlier.result.Dependencies[1].Path = "dep/b"
    /\ ~earlier.result.Dependencies[1].IsActive
    /\ result.Dependencies[2].LastCommitTime
          = earlier.result.Dependencies[1].LastCommitTime
    /\ Class(result.Dependencies, FALSE) = {<<"dep/b", VPseudo>>}

Stops(s) == {i \in DOMAIN s : s[i] = ","} \cup {Len(s) + 1}

\* the entry of the list s that ends at the stop e
EntryBefore(s, e) ==
    LET b == CHOOSE i \in Stops(s) \cup {0} :
                 /\ i < e
                 /\ \A j \in Stops(s) : j < e => j <= i
    IN SubSeq(s, b + 1, e - 1)

\* the text t without the blanks around it and without one trailing slash
Bare(t) ==
    LET inked == {i \in DOMAIN t : t[i] # " "}
        first == CHOOSE i \in inked : \A j \in inked : i <= j
        last == CHOOSE i \in inked : \A j \in inked : j <= i
    IN IF inked = {} THEN <<>>
       ELSE IF t[last] = "/" THEN SubSeq(t, first, last - 1)
       ELSE SubSeq(t, first, last)

\* the stops of s whose entries name an endpoint, in order
NamingStops(s) ==
    {e \in Stops(s) : Bare(EntryBefore(s, e)) \notin {<<>>, DirectWord}}

\* C31: for the empty list and a list of "direct" entries only,
\* getGoProxyURLs returns the default endpoint and nothing else; for every
\* other list it returns the list's entries other than "direct", in order,
\* each without the blanks around it and without a trailing slash.
C31_EndpointListParsed ==
    (call # <<>> /\ call[1] = "getGoProxyURLs") =>
        LET s == call[2]
        IN IF NamingStops(s) = {} THEN ret = <<DefaultProxy>>
           ELSE /\ Len(ret) = Cardinality(NamingStops(s))
                /\ \A e \in NamingStops(s) :
                      ret[Cardinality({d \in NamingStops(s) : d <= e})]
                          = Bare(EntryBefore(s, e))

\* asked about " a/ ,b/", getGoProxyURLs answered a, b
C31_Witness ==
    /\ call = <<"getGoProxyURLs", <<" ", "a", "/", " ", ",", "b", "/">>>>
    /\ ret = << <<"a">>, <<"b">> >>

\* C32: when checkMaintenanceStatus returns, IsActive is false exactly if a
\* commit time was found and its age in days is over the threshold, whatever
\* IsActive was on entry.
C32_InactiveIffFoundStale ==
    (call # <<>> /\ call[1] = "checkMaintenanceStatus") =>
        (~ret.IsActive <=>
            /\ Provenance(call[2].Version, call[3]) = "found"
            /\ ret.DaysSinceLastCommit > call[4])

\* C33: the DaysSinceLastCommit of a record with a found commit time is the
\* floor of the hours since that time over 24 (\div rounds down), also when
\* the time lies in the future.
C33_DaysIsFloorOfHours ==
    \A i \in DOMAIN result.Dependencies :
        provenance[i] = "found" =>
            result.Dependencies[i].DaysSinceLastCommit
                = (clock - result.Dependencies[i].LastCommitTime.h)
                      \div HoursPerDay

\* C34: every step leaves the records as they are or appends one record
\* after them; the record appended is the dependency of a worker that holds
\* the mutex at its append, so the records stand in the order in which the
\* workers made their appends.
C34_AppendOnly ==
    [][\/ result'.Dependencies = result.Dependencies
       \/ \E w \in Workers :
             /\ wpc[w] = "append"
             /\ resultMutex = w
             /\ result'.Dependencies
                   = Append(result.Dependencies, depsToScan[wdep[w]])]_vars

\* two workers hold a resolved dependency each; the one that was listed
\* second has appended its record, the other waits for the mutex
C34_Witness ==
    /\ pc = "wait"
    /\ base = 0
    /\ Len(depsToScan) = 2
    /\ Len(result.Dependencies) = 1
    /\ result.Dependencies[1] = depsToScan[2]
    /\ \E w \in Workers : wpc[w] = "lock" /\ wdep[w] = 1

\* C35: a Scan call that has reached scanParallel returns nil in the end,
\* whatever the worker count and the number of dependencies; on the way the
\* coordinator's send never finds the channel full, and the channel is closed
\* only when every dependency has been sent.
C35_PoolTerminates ==
    /\ [](pc = "send" /\ sent < Len(depsToScan)
            => Len(depChan) < Len(depsToScan))
    /\ [](closed => sent = Len(depsToScan))
    /\ (pc = "spawn") ~> ReturnedNil

\* a scan with two workers and nothing to resolve has returned nil
C35_Witness ==
    /\ ReturnedNil
    /\ depsToScan = <<>>
    /\ spawned = 2
    /\ closed
    /\ \A w \in Workers : wpc[w] = "done"

\* the dependencies of the running scan whose resolution hangs
HangingDeps == {i \in DOMAIN depsToScan : depsToScan[i].Path = HungPath}

\* the scan has appended a record for each dependency that does not hang
OthersAppended ==
    /\ Len(ThisScan) = Len(depsToScan) - Cardinality(HangingDeps)
    /\ \A i \in DOMAIN ThisScan : ThisScan[i].Path # HungPath

\* C36: a Scan call with a dependency whose resolution hangs does not return,
\* and a worker that hangs stays as it is; if the scan has two workers or
\* more and one such dependency, every other dependency gets its record in
\* the end.
C36_HungWorkerBlocksNoOther ==
    /\ [][(InPool /\ HangingDeps # {}) => pc' # "idle"]_vars
    /\ [][\A w \in Workers : Hung(w) => Hung(w)' /\ resultMutex # w]_vars
    /\ (pc = "spawn" /\ workers >= 2 /\ Cardinality(HangingDeps) = 1)
          ~> OthersAppended

\* one worker hangs on dep/b; the other has appended dep/a, found the channel
\* closed and left, and Scan waits
C36_Witness ==
    /\ pc = "wait"
    /\ Len(depsToScan) = 2
    /\ Cardinality(HangingDeps) = 1
    /\ \E w \in Workers : Hung(w)
    /\ \E w \in Workers : wpc[w] = "done"
    /\ OthersAppended
    /\ Len(ThisScan) = 1
    /\ resultMutex = 0

\* C37: once the single worker of a scan has been started, the records this
\* scan has appended are, position by position, the first dispatched
\* dependencies, so that at the return they are the filtered listing in
\* its order.
C37_SingleWorkerKeepsListingOrder ==
    (spawned = 1 /\ workers = 1 /\ InPool) \/ (spawned = 1 /\ ReturnedNil) =>
        /\ Len(ThisScan) <= Len(depsToScan)
        /\ \A i \in DOMAIN ThisScan : Coordinate(ThisScan[i]) = Dispatched[i]
        /\ ReturnedNil => Len(ThisScan) = Len(depsToScan)

\* a scan with one worker has returned with the records of two different
\* modules, in the listing's order
C37_Witness ==
    /\ ReturnedNil
    /\ spawned = 1
    /\ Len(ThisScan) = 2
    /\ ThisScan[1].Path # ThisScan[2].Path
    /\ ThisScan[1].Path = depsToScan[1].Path
    /\ ThisScan[2].Path = depsToScan[2].Path

\* the records of the aggregate are the first records of the aggregate after
\* the step, unchanged
KeepsRecords ==
    /\ Len(result.Dependencies) <= Len(result'.Dependencies)
    /\ \A i \in DOMAIN result.Dependencies :
          result'.Dependencies[i] = result.Dependencies[i]

\* C38: no step clears or rewrites a record of the aggregate, and a Scan call
\* begins on the aggregate as it finds it; when Scan returns nil, Total and
\* the number of records are what the Scanner held before plus the
\* dependencies of this scan, so that a second scan of as many dependencies as
\* the first ends with twice their number.
C38_ScansAccumulate ==
    /\ [][KeepsRecords]_vars
    /\ [][(pc = "idle" /\ scans' = scans + 1) =>
             /\ result'.Dependencies = result.Dependencies
             /\ result'.Summary.Total = result.Summary.Total
             /\ base' = Len(result.Dependencies)]_vars
    /\ [](ReturnedNil =>
             /\ result.Summary.Total = Len(result.Dependencies)
             /\ Len(result.Dependencies) = base + Len(depsToScan)
             /\ (scans = 2 /\ base = Len(depsToScan)) =>
                    result.Summary.Total = 2 * Len(depsToScan))

\* the second Scan of one Scanner has returned nil; like the first it had one
\* dependency, the same one, and the aggregate holds its record twice
C38_Witness ==
    /\ ReturnedNil
    /\ scans = 2
    /\ base = 1
    /\ Len(depsToScan) = 1
    /\ result.Summary.Total = 2
    /\ Len(result.Dependencies) = 2
    /\ Coordinate(result.Dependencies[1]) = Coordinate(depsToScan[1])
    /\ Coordinate(result.Dependencies[2]) = Coordinate(depsToScan[1])

\* C39: a step of a worker leaves Summary.Errors, Updated, Outdated,
\* StaleThresholdDays, ProjectPath and the Scanner's policy fields as they
\* are; Summary.Errors changes only while Scan reads its listing, in its
\* decode loop, with no worker running.
C39_WorkerFrame ==
    /\ [][(\E w \in Workers : Worker(w, RunsR)) =>
             /\ result'.Summary.Errors = result.Summary.Errors
             /\ result'.Summary.Updated = result.Summary.Updated
             /\ result'.Summary.Outdated = result.Summary.Outdated
             /\ result'.Summary.StaleThresholdDays
                   = result.Summary.StaleThresholdDays
             /\ result'.ProjectPath = result.ProjectPath
             /\ staleThresholdDays' = staleThresholdDays
             /\ includeIndirectDependencies' = includeIndirectDependencies
             /\ workers' = workers]_vars
    /\ [][result'.Summary.Errors # result.Summary.Errors =>
             /\ (pc = "idle" /\ scans' = scans + 1) \/ pc = "decode"
             /\ \A w \in Workers : wpc[w] \in {"none", "done"}]_vars

\* a dependency whose `go mod download` failed has its record in the
\* aggregate, counted in Total, and Summary.Errors is 0
C39_Witness ==
    /\ Len(result.Dependencies) = 1
    /\ provenance = <<"downloadFail">>
    /\ result.Dependencies[1].IsActive
    /\ result.Summary.Total = 1
    /\ result.Summary.Errors = 0
    /\ resultMutex = 0

====
